---- MODULE Spec2Model ----
(***************************************************************************)
(* sizer (command sz): main.go.  main stats the target, and for a          *)
(* directory calls listRootWithSizes, which sizes the immediate files      *)
(* itself and hands the immediate subdirectories to a pool of worker       *)
(* goroutines that run sizeDir (a filepath.WalkDir) on each.               *)
(*                                                                         *)
(* The file system is part of the state.  It does not change during a      *)
(* scan; an entry that cannot be read is an entry whose fault field names   *)
(* the system call that fails on it, for the whole scan.                   *)
(***************************************************************************)
EXTENDS Integers, Sequences, FiniteSets, TLC

\* ---------------------------------------------------------------- bounds
\* Entries below the scanned root, at any depth.
MaxNodes == 3
\* A regular file's size is in 1..MaxSize.
MaxSize == 2
\* Entries of one tree whose name begins with '.'.
MaxHidden == 1
\* Entries of one tree on which a system call fails (Lstat, Info or ReadDir).
MaxFaults == 1
\* runtime.NumCPU() ranges over 1..MaxCPU.
MaxCPU == 2
\* The command line holds at most MaxArgs tokens after the program's name.
MaxArgs == 3

\* ------------------------------------------------------ program constants
\* main.go:151-152, the cap on the pool size.
MaxWorkers == 8
\* main.go:208, the progress line is rewritten when more than 100 ms have passed.
UpdateInterval == 100

\* ------------------------------------------------------------ file system
\* The kinds fs.DirEntry tells apart in main.go: IsDir(), Type()&ModeSymlink,
\* and the rest, which is the regular files and every other non-directory
\* (named pipe, socket, device).
Kinds == {"file", "symlink", "other", "dir"}

Letters == <<"a", "b", "c", "d", "e", "f", "g", "h">>

\* The base name of entry i: a letter, after a '.' for a hidden entry.
BaseName(i, dot) ==
    LET l == <<Letters[((i - 1) % Len(Letters)) + 1]>>
    IN IF dot THEN <<".">> \o l ELSE l

\* What Lstat reports as the size of an entry of kind k: a link's is the length
\* of its target (here a target of one character), a pipe's, socket's or
\* device's is 0, a directory's is never read by the program.
SizesOf(k) ==
    CASE k = "file" -> 1..MaxSize
      [] k = "symlink" -> {1}
      [] OTHER -> {0}

\* The system calls that can fail on an entry: Lstat (what DirEntry.Info and the
\* start of WalkDir call) on any entry, ReadDir on a directory.
FaultsOf(k) == IF k = "dir" THEN {"none", "lstat", "readdir"} ELSE {"none", "lstat"}

\* main.go tests a name for a leading '.' (lines 115 and 244).
IsDot(name) == Len(name) > 0 /\ name[1] = "."

NumDots(t) == Cardinality({i \in 1..Len(t) : IsDot(t[i].name)})
NumFaults(t) == Cardinality({i \in 1..Len(t) : t[i].fault # "none"})

\* The entries that can be added as entry number i to the tree t.  The parent is
\* the root (0) or an earlier directory that Lstat finds.
NewNodes(t, i) ==
    { [parent |-> p, kind |-> k, name |-> BaseName(i, dot), size |-> s, fault |-> f] :
        p \in {0} \cup {j \in 1..Len(t) : t[j].kind = "dir" /\ t[j].fault # "lstat"},
        k \in Kinds, dot \in BOOLEAN, s \in 0..MaxSize, f \in {"none", "lstat", "readdir"} }

RECURSIVE TreesOfSize(_)
TreesOfSize(n) ==
    IF n = 0 THEN { <<>> }
    ELSE UNION { { Append(t, e) :
                     e \in { x \in NewNodes(t, n) :
                               /\ x.size \in SizesOf(x.kind)
                               /\ x.fault \in FaultsOf(x.kind)
                               /\ NumDots(t) + (IF IsDot(x.name) THEN 1 ELSE 0) <= MaxHidden
                               /\ NumFaults(t) + (IF x.fault # "none" THEN 1 ELSE 0) <= MaxFaults } } :
                 t \in TreesOfSize(n - 1) }

\* Every directory tree of at most MaxNodes entries.
Trees == UNION { TreesOfSize(n) : n \in 0..MaxNodes }

\* The byte order of the names' characters.
CharCode(c) == IF c = "." THEN 0 ELSE CHOOSE k \in 1..Len(Letters) : Letters[k] = c

RECURSIVE NameLess(_, _)
NameLess(a, b) ==
    IF Len(a) = 0 THEN Len(b) > 0
    ELSE IF Len(b) = 0 THEN FALSE
    ELSE IF CharCode(Head(a)) # CharCode(Head(b)) THEN CharCode(Head(a)) < CharCode(Head(b))
    ELSE NameLess(Tail(a), Tail(b))

\* os.ReadDir(p): the entries of directory p, sorted by file name.
ReadDir(t, p) ==
    SortSeq(SelectSeq([i \in 1..Len(t) |-> i], LAMBDA i : t[i].parent = p),
            LAMBDA i, j : NameLess(t[i].name, t[j].name))

\* ------------------------------------------------------------------ sizeDir
Nil == "nil"
SkipDir == "SkipDir"

\* WalkFn with a directory counted like a file (mutation: C2 tells it apart).
WalkFnCountsDirs(t, all, i, err) ==
    IF err # Nil THEN [ret |-> Nil, total |-> 0, count |-> 0]
    ELSE IF ~all /\ IsDot(t[i].name)
        THEN [ret |-> IF t[i].kind = "dir" THEN SkipDir ELSE Nil, total |-> 0, count |-> 0]
    ELSE IF t[i].kind = "dir" THEN [ret |-> Nil, total |-> 0, count |-> 1]
    ELSE IF t[i].kind = "symlink" THEN [ret |-> Nil, total |-> 0, count |-> 1]
    ELSE IF t[i].fault = "lstat" THEN [ret |-> Nil, total |-> 0, count |-> 0]
    ELSE [ret |-> Nil, total |-> t[i].size, count |-> 1]

\* WalkFn with nil in place of SkipDir for a hidden directory, so that the walk
\* goes on below it (mutation: C5 tells it apart).
WalkFnNoPrune(t, all, i, err) ==
    IF err # Nil THEN [ret |-> Nil, total |-> 0, count |-> 0]
    ELSE IF ~all /\ IsDot(t[i].name) THEN [ret |-> Nil, total |-> 0, count |-> 0]
    ELSE IF t[i].kind = "dir" THEN [ret |-> Nil, total |-> 0, count |-> 0]
    ELSE IF t[i].kind = "symlink" THEN [ret |-> Nil, total |-> 0, count |-> 1]
    ELSE IF t[i].fault = "lstat" THEN [ret |-> Nil, total |-> 0, count |-> 0]
    ELSE [ret |-> Nil, total |-> t[i].size, count |-> 1]

\* The callback sizeDir hands to filepath.WalkDir (main.go:237-267), called on
\* entry i with the error err: what it returns, and what it adds to total and
\* count.
WalkFn(t, all, i, err) ==
    IF err # Nil THEN [ret |-> Nil, total |-> 0, count |-> 0]
    ELSE IF ~all /\ IsDot(t[i].name)
        THEN [ret |-> IF t[i].kind = "dir" THEN SkipDir ELSE Nil, total |-> 0, count |-> 0]
    ELSE IF t[i].kind = "dir" THEN [ret |-> Nil, total |-> 0, count |-> 0]
    ELSE IF t[i].kind = "symlink" THEN [ret |-> Nil, total |-> 0, count |-> 1]
    ELSE IF t[i].fault = "lstat" THEN [ret |-> Nil, total |-> 0, count |-> 0]
    ELSE [ret |-> Nil, total |-> t[i].size, count |-> 1]

\* filepath.walkDir on entry i, and on the entries kids[k..] of one directory:
\* the callback on the entry, then, for a directory the callback did not skip,
\* ReadDir (the callback once more when it fails) and the entries in turn, until
\* one returns an error.
RECURSIVE walkDir(_, _, _)
RECURSIVE walkEntries(_, _, _, _, _)
walkEntries(t, all, kids, k, acc) ==
    IF k > Len(kids) THEN acc
    ELSE LET r == walkDir(t, all, kids[k])
             sum == [ret |-> r.ret, total |-> acc.total + r.total, count |-> acc.count + r.count]
         IN IF r.ret = Nil THEN walkEntries(t, all, kids, k + 1, sum)
            ELSE IF r.ret = SkipDir THEN [sum EXCEPT !.ret = Nil]
            ELSE sum

walkDir(t, all, i) ==
    LET r == WalkFn(t, all, i, Nil)
    IN IF r.ret # Nil \/ t[i].kind # "dir"
       THEN IF r.ret = SkipDir /\ t[i].kind = "dir" THEN [r EXCEPT !.ret = Nil] ELSE r
       ELSE IF t[i].fault = "readdir"
            THEN LET e == WalkFn(t, all, i, "readdir")
                 IN IF e.ret = SkipDir THEN [e EXCEPT !.ret = Nil] ELSE e
            ELSE walkEntries(t, all, ReadDir(t, i), 1, r)

\* sizeDir(root, showAll) on the immediate subdirectory i (main.go:234-269):
\* WalkDir calls the callback with the error when Lstat of its root fails, and
\* returns what the walk returned, SkipDir read as nil.
sizeDir(t, all, i) ==
    LET r == IF t[i].fault = "lstat" THEN WalkFn(t, all, i, "lstat") ELSE walkDir(t, all, i)
    IN [size |-> r.total, count |-> r.count, err |-> IF r.ret = SkipDir THEN Nil ELSE r.ret]

\* ------------------------------------------------------------ command line
\* A token of os.Args[1:] is a string, here the sequence of its characters.
Flag == <<"-", "a">>
Dot == <<".">>

\* The tokens of the command lines tried: the flag, the empty string and two
\* paths.
Tokens == {Flag, << >>, <<"p">>, <<"q">>}

RECURSIVE ArgsOfLen(_)
ArgsOfLen(n) ==
    IF n = 0 THEN {<< >>}
    ELSE {Append(a, tok) : a \in ArgsOfLen(n - 1), tok \in Tokens}

ArgLists == UNION {ArgsOfLen(n) : n \in 0..MaxArgs}

RECURSIVE parseLoop(_, _, _)
\* main.go:40-47, the loop over os.Args[1:] from position k on; st holds
\* target and showAll.
parseLoop(a, k, st) ==
    IF k > Len(a) THEN st
    ELSE parseLoop(a, k + 1,
            IF a[k] = Flag THEN [st EXCEPT !.showAll = TRUE]
            ELSE IF Len(st.target) = 0 THEN [st EXCEPT !.target = a[k]]
            ELSE st)

\* main.go:36-52: target and showAll start at their zero values, the loop
\* runs, and an empty target becomes ".".
ParseArgs(a) ==
    LET st == parseLoop(a, 1, [target |-> << >>, showAll |-> FALSE])
    IN IF st.target = << >> THEN [st EXCEPT !.target = Dot] ELSE st

\* -------------------------------------------------------------------- state
VARIABLES
    args,              \* os.Args[1:]
    numCPU,            \* what runtime.NumCPU() returns on this machine
    fs,                \* the tree below the target directory
    target,            \* main: target
    showAll,           \* main: showAll, the -a flag
    numWorkers,        \* listRootWithSizes: numWorkers
    pc,                \* where the main goroutine is
    dirEntries,        \* what os.ReadDir(root) returned
    idx,               \* the position of the loops over dirEntries and over dirs
    dirs,              \* the immediate subdirectories kept for the workers
    entries,           \* listRootWithSizes: entries
    totalSize,         \* listRootWithSizes: totalSize
    totalCount,        \* listRootWithSizes: totalCount
    dirCh,             \* the work queue, and whether it is closed
    dirChClosed,
    results,           \* the result channel, and whether it is closed
    resultsClosed,
    wg,                \* the WaitGroup's counter
    wpc,               \* where each worker goroutine is
    wdir,              \* the directory each worker holds
    cpc,               \* where the goroutine of main.go:195-198 is
    lastUpdate,        \* "zero" for the zero time.Time
    resultsProcessed,
    out,               \* what was written to standard output, in order
    ret                \* what listRootWithSizes returned

vars == << args, numCPU, fs, target, showAll, numWorkers, pc, dirEntries, idx, dirs, entries, totalSize,
           totalCount, dirCh, dirChClosed, results, resultsClosed, wg, wpc, wdir,
           cpc, lastUpdate, resultsProcessed, out, ret >>

\* what the run is given, and what main reads from the command line
given == << args, numCPU, fs >>
inputs == << given, target, showAll >>
\* the variables of the channels and goroutines
poolVars == << dirCh, dirChClosed, results, resultsClosed, wg, wpc, wdir, cpc >>
\* the variables of the aggregation
aggVars == << entries, totalSize, totalCount, lastUpdate, resultsProcessed >>

NotReturned == [entries |-> << >>, totalSize |-> 0, totalCount |-> 0, err |-> "pending"]

\* The state when main begins, for a command line, a machine and a tree.
Start(a, c, t) ==
    /\ args = a
    /\ numCPU = c
    /\ fs = t
    /\ target = << >>
    /\ showAll = FALSE
    /\ numWorkers = 0
    /\ pc = "Args"
    /\ dirEntries = << >>
    /\ idx = 1
    /\ dirs = << >>
    /\ entries = << >>
    /\ totalSize = 0
    /\ totalCount = 0
    /\ dirCh = << >>
    /\ dirChClosed = FALSE
    /\ results = << >>
    /\ resultsClosed = FALSE
    /\ wg = 0
    /\ wpc = << >>
    /\ wdir = << >>
    /\ cpc = "idle"
    /\ lastUpdate = "zero"
    /\ resultsProcessed = 0
    /\ out = << >>
    /\ ret = NotReturned

\* sz on a directory tree, with and without the flag.
Init == \E a \in {<< >>, <<Flag>>}, c \in 1..MaxCPU, t \in Trees : Start(a, c, t)

\* main.go:35-52: the command line is read.
MainArgs ==
    /\ pc = "Args"
    /\ target' = ParseArgs(args).target
    /\ showAll' = ParseArgs(args).showAll
    /\ pc' = "Stat"
    /\ UNCHANGED << given, numWorkers, dirEntries, idx, dirs, aggVars, poolVars, out, ret >>

\* --------------------------------------------------------------------- main
\* main.go:55-59: os.Stat(target) fails, and log.Fatalf ends the process.
StatFails ==
    /\ pc = "Stat"
    /\ pc' = "Fatal"
    /\ UNCHANGED << inputs, numWorkers, dirEntries, idx, dirs, aggVars, poolVars, out, ret >>

\* StatFile without the return of main.go:71: the scan follows the report
\* (mutation: C11 tells it apart).
StatFileFallsThrough ==
    /\ pc = "Stat"
    /\ \E fileSize \in 0..MaxSize :
         out' = out \o << <<"File", target>>, <<"Size", fileSize>> >>
    /\ pc' = "ReadDir"
    /\ UNCHANGED << inputs, numWorkers, dirEntries, idx, dirs, aggVars, poolVars, ret >>

\* main.go:62-72: the target is not a directory; its path and size are printed.
StatFile ==
    /\ pc = "Stat"
    /\ \E fileSize \in 0..MaxSize :
         out' = out \o << <<"File", target>>, <<"Size", fileSize>> >>
    /\ pc' = "Done"
    /\ UNCHANGED << inputs, numWorkers, dirEntries, idx, dirs, aggVars, poolVars, ret >>

\* main.go:75: the target is a directory; listRootWithSizes is called.
StatDir ==
    /\ pc = "Stat"
    /\ pc' = "ReadDir"
    /\ UNCHANGED << inputs, numWorkers, dirEntries, idx, dirs, aggVars, poolVars, out, ret >>

\* ReadDirFails with the entries read before the error returned beside it
\* (mutation: C9 tells it apart).
ReadDirFailsPartial ==
    /\ pc = "ReadDir"
    /\ ret' = [entries |-> [k \in 1..Len(ReadDir(fs, 0)) |->
                              [Name |-> fs[ReadDir(fs, 0)[k]].name,
                               Size |-> fs[ReadDir(fs, 0)[k]].size, Type |-> "file"]],
               totalSize |-> 0, totalCount |-> Len(ReadDir(fs, 0)), err |-> "readdir"]
    /\ pc' = "Returned"
    /\ UNCHANGED << inputs, numWorkers, dirEntries, idx, dirs, aggVars, poolVars, out >>

\* main.go:106-109: os.ReadDir(root) fails.
ReadDirFails ==
    /\ pc = "ReadDir"
    /\ ret' = [entries |-> << >>, totalSize |-> 0, totalCount |-> 0, err |-> "readdir"]
    /\ pc' = "Returned"
    /\ UNCHANGED << inputs, numWorkers, dirEntries, idx, dirs, aggVars, poolVars, out >>

\* main.go:106: os.ReadDir(root) returns the immediate entries.
ReadDirOk ==
    /\ pc = "ReadDir"
    /\ dirEntries' = ReadDir(fs, 0)
    /\ idx' = 1
    /\ pc' = "Partition"
    /\ UNCHANGED << inputs, numWorkers, dirs, aggVars, poolVars, out, ret >>

\* PartitionStep with an immediate symbolic link counted at 0 bytes in the total,
\* as sizeDir counts it, and listed with its own size (mutation: C8 tells it
\* apart).
PartitionStepLinkZero(t, all, d, st) ==
    IF ~all /\ IsDot(t[d].name) THEN st
    ELSE IF t[d].kind = "dir" THEN [st EXCEPT !.dirs = Append(@, d)]
    ELSE IF t[d].fault = "lstat" THEN st
    ELSE [st EXCEPT !.entries = Append(@, [Name |-> t[d].name, Size |-> t[d].size,
                                            Type |-> "file"]),
                    !.totalSize = @ + (IF t[d].kind = "symlink" THEN 0 ELSE t[d].size),
                    !.totalCount = @ + 1]

\* PartitionStep that lists a file whose Info() fails, with size 0, in place
\* of the continue of main.go:123-125 (mutation: C18 tells it apart).
PartitionStepListsUnreadable(t, all, d, st) ==
    IF ~all /\ IsDot(t[d].name) THEN st
    ELSE IF t[d].kind = "dir" THEN [st EXCEPT !.dirs = Append(@, d)]
    ELSE LET size == IF t[d].fault = "lstat" THEN 0 ELSE t[d].size
         IN [st EXCEPT !.entries = Append(@, [Name |-> t[d].name, Size |-> size,
                                               Type |-> "file"]),
                       !.totalSize = @ + size,
                       !.totalCount = @ + 1]

\* main.go:113-137, one round of the loop over dirEntries.
PartitionStep(t, all, d, st) ==
    IF ~all /\ IsDot(t[d].name) THEN st
    ELSE IF t[d].kind = "dir" THEN [st EXCEPT !.dirs = Append(@, d)]
    ELSE IF t[d].fault = "lstat" THEN st
    ELSE [st EXCEPT !.entries = Append(@, [Name |-> t[d].name, Size |-> t[d].size,
                                            Type |-> "file"]),
                    !.totalSize = @ + t[d].size,
                    !.totalCount = @ + 1]

Partition ==
    /\ pc = "Partition"
    /\ idx <= Len(dirEntries)
    /\ LET st == PartitionStep(fs, showAll, dirEntries[idx],
                               [dirs |-> dirs, entries |-> entries,
                                totalSize |-> totalSize, totalCount |-> totalCount])
       IN /\ dirs' = st.dirs
          /\ entries' = st.entries
          /\ totalSize' = st.totalSize
          /\ totalCount' = st.totalCount
    /\ idx' = idx + 1
    /\ UNCHANGED << inputs, numWorkers, pc, dirEntries, lastUpdate, resultsProcessed, poolVars, out, ret >>

\* main.go:140: the loop is over; with no subdirectory the pool is skipped.
PartitionDone ==
    /\ pc = "Partition"
    /\ idx > Len(dirEntries)
    /\ pc' = IF Len(dirs) > 0 THEN "StartWorkers" ELSE "Sort"
    /\ UNCHANGED << inputs, numWorkers, dirEntries, idx, dirs, aggVars, poolVars, out, ret >>

\* NumWorkers without the cap of main.go:151-153 (mutation: C15 tells it
\* apart).
NumWorkersUncapped(cpus) == cpus

\* main.go:150-153: runtime.NumCPU(), capped.
NumWorkers(cpus) == IF cpus > MaxWorkers THEN MaxWorkers ELSE cpus

\* main.go:150-186: the pool size is set, the channels are made and the workers
\* started.
StartWorkers ==
    /\ pc = "StartWorkers"
    /\ numWorkers' = NumWorkers(numCPU)
    /\ wg' = wg + NumWorkers(numCPU)
    /\ wpc' = [w \in 1..NumWorkers(numCPU) |-> "recv"]
    /\ wdir' = [w \in 1..NumWorkers(numCPU) |-> 0]
    /\ idx' = 1
    /\ pc' = "Feed"
    /\ UNCHANGED << inputs, dirEntries, dirs, aggVars, dirCh, dirChClosed, results,
                    resultsClosed, cpc, out, ret >>

\* ChanCap of channels made with the pool's size for capacity (mutation: C19
\* tells it apart).
ChanCapPool == numWorkers

\* make(chan ..., len(dirs)), main.go:156 and 160.
ChanCap == Len(dirs)

\* main.go:189-191: dirCh <- dir.
Feed ==
    /\ pc = "Feed"
    /\ idx <= Len(dirs)
    /\ ~dirChClosed
    /\ Len(dirCh) < ChanCap
    /\ dirCh' = Append(dirCh, dirs[idx])
    /\ idx' = idx + 1
    /\ UNCHANGED << inputs, numWorkers, pc, dirEntries, dirs, aggVars, dirChClosed, results,
                    resultsClosed, wg, wpc, wdir, cpc, out, ret >>

\* CloseDirCh that does not wait for the end of the loop of main.go:189-191
\* (mutation: C20 tells it apart).
CloseDirChEarly ==
    /\ pc = "Feed"
    /\ dirChClosed' = TRUE
    /\ pc' = "StartCloser"
    /\ UNCHANGED << inputs, numWorkers, dirEntries, idx, dirs, aggVars, dirCh, results,
                    resultsClosed, wg, wpc, wdir, cpc, out, ret >>

\* CloseDirCh without the close of main.go:192 (mutation: C14 tells it apart).
CloseDirChForgotten ==
    /\ pc = "Feed"
    /\ idx > Len(dirs)
    /\ pc' = "StartCloser"
    /\ UNCHANGED << inputs, numWorkers, dirEntries, idx, dirs, aggVars, poolVars, out, ret >>

\* main.go:192: close(dirCh).
CloseDirCh ==
    /\ pc = "Feed"
    /\ idx > Len(dirs)
    /\ dirChClosed' = TRUE
    /\ pc' = "StartCloser"
    /\ UNCHANGED << inputs, numWorkers, dirEntries, idx, dirs, aggVars, dirCh, results,
                    resultsClosed, wg, wpc, wdir, cpc, out, ret >>

\* main.go:195: the goroutine that waits for the workers is started.
StartCloser ==
    /\ pc = "StartCloser"
    /\ cpc' = "wait"
    /\ pc' = "Consume"
    /\ UNCHANGED << inputs, numWorkers, dirEntries, idx, dirs, aggVars, dirCh, dirChClosed, results,
                    resultsClosed, wg, wpc, wdir, out, ret >>

\* ------------------------------------------------------------------ workers
\* WorkerRecv that reads the head of dirCh and leaves it there (mutation: C16
\* tells it apart).
WorkerRecvNoPop(w) ==
    /\ wpc[w] = "recv"
    /\ Len(dirCh) > 0
    /\ wdir' = [wdir EXCEPT ![w] = Head(dirCh)]
    /\ wpc' = [wpc EXCEPT ![w] = "print"]
    /\ UNCHANGED << inputs, numWorkers, pc, dirEntries, idx, dirs, aggVars, dirCh, dirChClosed,
                    results, resultsClosed, wg, cpc, out, ret >>

\* main.go:165: a worker takes the next directory from dirCh.
WorkerRecv(w) ==
    /\ wpc[w] = "recv"
    /\ Len(dirCh) > 0
    /\ wdir' = [wdir EXCEPT ![w] = Head(dirCh)]
    /\ dirCh' = Tail(dirCh)
    /\ wpc' = [wpc EXCEPT ![w] = "print"]
    /\ UNCHANGED << inputs, numWorkers, pc, dirEntries, idx, dirs, aggVars, dirChClosed, results,
                    resultsClosed, wg, cpc, out, ret >>

\* WorkerExit that leaves the loop as soon as dirCh is empty, closed or not
\* (mutation: C13 tells it apart).
WorkerExitOnEmpty(w) ==
    /\ wpc[w] = "recv"
    /\ Len(dirCh) = 0
    /\ wpc' = [wpc EXCEPT ![w] = "exited"]
    /\ wg' = wg - 1
    /\ UNCHANGED << inputs, numWorkers, pc, dirEntries, idx, dirs, aggVars, dirCh, dirChClosed,
                    results, resultsClosed, wdir, cpc, out, ret >>

\* main.go:164-165: dirCh is closed and empty; the loop ends and wg.Done() runs.
WorkerExit(w) ==
    /\ wpc[w] = "recv"
    /\ Len(dirCh) = 0
    /\ dirChClosed
    /\ wpc' = [wpc EXCEPT ![w] = "exited"]
    /\ wg' = wg - 1
    /\ UNCHANGED << inputs, numWorkers, pc, dirEntries, idx, dirs, aggVars, dirCh, dirChClosed,
                    results, resultsClosed, wdir, cpc, out, ret >>

\* main.go:169: the worker writes "\rScanning: <name>".
WorkerPrint(w) ==
    /\ wpc[w] = "print"
    /\ out' = Append(out, <<"Scanning", fs[wdir[w]].name>>)
    /\ wpc' = [wpc EXCEPT ![w] = "walk"]
    /\ UNCHANGED << inputs, numWorkers, pc, dirEntries, idx, dirs, aggVars, dirCh, dirChClosed, results, resultsClosed, wg, wdir, cpc, ret >>

\* main.go:174-183: the dirResult a worker builds from what sizeDir returned.
DirResult(t, d, r) ==
    [entry |-> [Name |-> t[d].name, Size |-> r.size, Type |-> "dir"],
     size |-> r.size, count |-> r.count, err |-> r.err]

\* main.go:172-183: sizeDir walks the directory the worker holds (the worker is
\* in the walk from its progress line on), and the result is sent on results.
WorkerWalk(w) ==
    /\ wpc[w] = "walk"
    /\ ~resultsClosed
    /\ Len(results) < ChanCap
    /\ results' = Append(results, DirResult(fs, wdir[w], sizeDir(fs, showAll, wdir[w])))
    /\ wpc' = [wpc EXCEPT ![w] = "recv"]
    /\ wdir' = [wdir EXCEPT ![w] = 0]
    /\ UNCHANGED << inputs, numWorkers, pc, dirEntries, idx, dirs, aggVars, dirCh,
                    dirChClosed, resultsClosed, wg, cpc, out, ret >>

\* CloserWait without the wait for the workers (mutation: C10 tells it apart).
CloserWaitEarly ==
    /\ cpc = "wait"
    /\ cpc' = "close"
    /\ UNCHANGED << inputs, numWorkers, pc, dirEntries, idx, dirs, aggVars, dirCh,
                    dirChClosed, results, resultsClosed, wg, wpc, wdir, out, ret >>

\* main.go:196: wg.Wait() returns.
CloserWait ==
    /\ cpc = "wait"
    /\ wg = 0
    /\ cpc' = "close"
    /\ UNCHANGED << inputs, numWorkers, pc, dirEntries, idx, dirs, aggVars, dirCh, dirChClosed,
                    results, resultsClosed, wg, wpc, wdir, out, ret >>

\* main.go:197: close(results).
CloserClose ==
    /\ cpc = "close"
    /\ resultsClosed' = TRUE
    /\ cpc' = "done"
    /\ UNCHANGED << inputs, numWorkers, pc, dirEntries, idx, dirs, aggVars, dirCh, dirChClosed,
                    results, wg, wpc, wdir, out, ret >>

\* --------------------------------------------------------------- aggregator
\* What now.Sub(lastUpdate) can be, in ms, when lastUpdate is not the zero time.
Elapsed == {0, UpdateInterval, UpdateInterval + 1}

\* main.go:208: now.Sub(lastUpdate) > 100*time.Millisecond; the zero time is
\* centuries back.
UpdateDue(last, elapsed) == last = "zero" \/ elapsed > UpdateInterval

\* main.go:213-219: what one result does to entries and the totals.
Merge(result, st) ==
    IF result.err # Nil THEN st
    ELSE [entries |-> Append(st.entries, result.entry),
          totalSize |-> st.totalSize + result.size,
          totalCount |-> st.totalCount + result.count]

\* Consume that writes the count before the increment of main.go:204
\* (mutation: C17 tells it apart).
ConsumeStaleCount ==
    /\ pc = "Consume"
    /\ Len(results) > 0
    /\ results' = Tail(results)
    /\ resultsProcessed' = resultsProcessed + 1
    /\ \E elapsed \in Elapsed :
         IF UpdateDue(lastUpdate, elapsed)
         THEN /\ out' = Append(out, <<"Scanned", resultsProcessed, Len(dirs)>>)
              /\ lastUpdate' = "now"
         ELSE UNCHANGED << out, lastUpdate >>
    /\ LET st == Merge(Head(results), [entries |-> entries, totalSize |-> totalSize,
                                        totalCount |-> totalCount])
       IN /\ entries' = st.entries
          /\ totalSize' = st.totalSize
          /\ totalCount' = st.totalCount
    /\ UNCHANGED << inputs, numWorkers, pc, dirEntries, idx, dirs, dirCh, dirChClosed, resultsClosed,
                    wg, wpc, wdir, cpc, ret >>

\* main.go:203-220, one round of the loop over the results.
Consume ==
    /\ pc = "Consume"
    /\ Len(results) > 0
    /\ results' = Tail(results)
    /\ resultsProcessed' = resultsProcessed + 1
    /\ \E elapsed \in Elapsed :
         IF UpdateDue(lastUpdate, elapsed)
         THEN /\ out' = Append(out, <<"Scanned", resultsProcessed + 1, Len(dirs)>>)
              /\ lastUpdate' = "now"
         ELSE UNCHANGED << out, lastUpdate >>
    /\ LET st == Merge(Head(results), [entries |-> entries, totalSize |-> totalSize,
                                        totalCount |-> totalCount])
       IN /\ entries' = st.entries
          /\ totalSize' = st.totalSize
          /\ totalCount' = st.totalCount
    /\ UNCHANGED << inputs, numWorkers, pc, dirEntries, idx, dirs, dirCh, dirChClosed, resultsClosed,
                    wg, wpc, wdir, cpc, ret >>

\* ConsumeDone that ends the loop as soon as results is empty, closed or not
\* (mutation: C6 tells it apart).
ConsumeDoneEarly ==
    /\ pc = "Consume"
    /\ Len(results) = 0
    /\ pc' = "Sort"
    /\ UNCHANGED << inputs, numWorkers, dirEntries, idx, dirs, aggVars, poolVars, out, ret >>

\* main.go:203: results is closed and empty; the loop ends.
ConsumeDone ==
    /\ pc = "Consume"
    /\ Len(results) = 0
    /\ resultsClosed
    /\ pc' = "Sort"
    /\ UNCHANGED << inputs, numWorkers, dirEntries, idx, dirs, aggVars, poolVars, out, ret >>

\* Less the other way round (mutation: C7 tells it apart).
LessAscending(a, b) == a.Size < b.Size

\* main.go:225, the less function of the sort.
Less(a, b) == a.Size > b.Size

\* What sort.Slice can leave: sort.Slice is not stable, so any arrangement
\* of the entries in which no entry is before one that is Less than it.
SortSlice(es) ==
    LET n == Len(es)
        perms == { f \in [1..n -> 1..n] : \A i, j \in 1..n : i # j => f[i] # f[j] }
    IN { [i \in 1..n |-> es[f[i]]] :
           f \in { g \in perms : \A i, j \in 1..n : i < j => ~Less(es[g[j]], es[g[i]]) } }

\* main.go:224-226.
Sort ==
    /\ pc = "Sort"
    /\ entries' \in SortSlice(entries)
    /\ pc' = "Clear"
    /\ UNCHANGED << inputs, numWorkers, dirEntries, idx, dirs, totalSize, totalCount, lastUpdate,
                    resultsProcessed, poolVars, out, ret >>

\* main.go:229: the line is cleared.
Clear ==
    /\ pc = "Clear"
    /\ out' = Append(out, <<"Clear">>)
    /\ pc' = "Return"
    /\ UNCHANGED << inputs, numWorkers, dirEntries, idx, dirs, aggVars, poolVars, ret >>

\* main.go:231.
Return ==
    /\ pc = "Return"
    /\ ret' = [entries |-> entries, totalSize |-> totalSize, totalCount |-> totalCount,
               err |-> Nil]
    /\ pc' = "Returned"
    /\ UNCHANGED << inputs, numWorkers, dirEntries, idx, dirs, aggVars, poolVars, out >>

\* main.go:76-78: log.Fatalf on the error.
MainFatal ==
    /\ pc = "Returned"
    /\ ret.err # Nil
    /\ pc' = "Fatal"
    /\ UNCHANGED << inputs, numWorkers, dirEntries, idx, dirs, aggVars, poolVars, out, ret >>

\* main.go:87-97: the header, one line for each entry, the total.
EntryLines(es) ==
    [i \in 1..Len(es) |->
        <<"Entry", IF es[i].Type = "file" THEN "FILE" ELSE "DIR", es[i].Size, es[i].Name>>]

MainPrint ==
    /\ pc = "Returned"
    /\ ret.err = Nil
    /\ out' = out \o << <<"Contents">>, <<"Rule">> >> \o EntryLines(ret.entries)
                  \o << <<"Rule">>, <<"Total", ret.totalSize, ret.totalCount>> >>
    /\ pc' = "Done"
    /\ UNCHANGED << inputs, numWorkers, dirEntries, idx, dirs, aggVars, poolVars, ret >>

Workers == 1..numWorkers

Next ==
    \/ MainArgs
    \/ StatFails \/ StatFile \/ StatDir
    \/ ReadDirFails \/ ReadDirOk
    \/ Partition \/ PartitionDone
    \/ StartWorkers \/ Feed \/ CloseDirCh \/ StartCloser
    \/ \E w \in Workers : WorkerRecv(w)
    \/ \E w \in Workers : WorkerExit(w)
    \/ \E w \in Workers : WorkerPrint(w)
    \/ \E w \in Workers : WorkerWalk(w)
    \/ CloserWait \/ CloserClose
    \/ Consume \/ ConsumeDone
    \/ Sort \/ Clear \/ Return
    \/ MainFatal \/ MainPrint

Spec == Init /\ [][Next]_vars

\* ----------------------------------------------------------------- fairness
\* The steps of the main goroutine, of worker w and of the goroutine of
\* main.go:195-198.
MainStep ==
    \/ MainArgs
    \/ StatFails \/ StatFile \/ StatDir
    \/ ReadDirFails \/ ReadDirOk
    \/ Partition \/ PartitionDone
    \/ StartWorkers \/ Feed \/ CloseDirCh \/ StartCloser
    \/ Consume \/ ConsumeDone
    \/ Sort \/ Clear \/ Return
    \/ MainFatal \/ MainPrint

WorkerStep(w) ==
    /\ w \in Workers
    /\ WorkerRecv(w) \/ WorkerExit(w) \/ WorkerPrint(w) \/ WorkerWalk(w)

CloserStep == CloserWait \/ CloserClose

\* The Go scheduler runs every goroutine that can take a step: a goroutine
\* that stays runnable is not passed over forever.
Fairness ==
    /\ WF_vars(MainStep)
    /\ WF_vars(CloserStep)
    /\ \A w \in 1..MaxWorkers : WF_vars(WorkerStep(w))

\* The trees whose entries are all immediate subdirectories: none, fewer than
\* the pool has workers, as many, or more.
PoolTrees ==
    {t \in Trees : \A i \in 1..Len(t) : t[i].kind = "dir" /\ t[i].parent = 0}

InitPool == \E a \in {<< >>, <<Flag>>}, c \in 1..MaxCPU, t \in PoolTrees : Start(a, c, t)

FairSpec == InitPool /\ [][Next]_vars /\ Fairness

\* ------------------------------------------------------------ large machines
\* Machines with as many CPUs as the cap on the pool, and with one more.
ManyCPUs == {MaxWorkers, MaxWorkers + 1}

\* Scans of the trees of immediate subdirectories: every such tree on the
\* machines of 1..MaxCPU CPUs, and the trees of at most one subdirectory on the
\* machines of ManyCPUs.
InitCap ==
    \E a \in {<< >>, <<Flag>>}, c \in (1..MaxCPU) \cup ManyCPUs, t \in PoolTrees :
        /\ c \in ManyCPUs => Len(t) <= 1
        /\ Start(a, c, t)

CapSpec == InitCap /\ [][Next]_vars

\* The trees of the runs that try every command line: at most one entry.
ArgTrees == TreesOfSize(0) \cup TreesOfSize(1)

\* sz with every command line of ArgLists.
InitArgs == \E a \in ArgLists, c \in 1..MaxCPU, t \in ArgTrees : Start(a, c, t)

ArgSpec == InitArgs /\ [][Next]_vars

\* =================================================================== claims
\* What the claims speak of, stated on the tree itself.

RECURSIVE Ancestors(_, _)
\* The directories on the path from the root down to entry i, i excluded.
Ancestors(t, i) ==
    IF t[i].parent = 0 THEN {} ELSE {t[i].parent} \cup Ancestors(t, t[i].parent)

\* Excluded by the hidden filter: the name of the entry, or of a directory on
\* its path below the root, begins with '.', and hidden entries are not shown.
Excluded(t, all, i) ==
    ~all /\ \E a \in Ancestors(t, i) \cup {i} : IsDot(t[a].name)

\* Reachable from the root: every directory on the path can be walked.
Reachable(t, i) == \A a \in Ancestors(t, i) : t[a].fault = "none"

\* The entries the scan looks at.
Scanned(t, all) == {i \in 1..Len(t) : Reachable(t, i) /\ ~Excluded(t, all, i)}

RECURSIVE SumOfSizes(_, _)
SumOfSizes(t, S) ==
    IF S = {} THEN 0
    ELSE LET i == CHOOSE x \in S : TRUE IN t[i].size + SumOfSizes(t, S \ {i})

\* The regular files the scan looks at and can size.
RegularFiles(t, all) ==
    {i \in Scanned(t, all) : t[i].kind = "file" /\ t[i].fault = "none"}

\* The entries the scan counts: a non-directory it looks at, unless its
\* metadata is read and the read fails.  The metadata of an immediate entry is
\* always read; below a subdirectory a symbolic link's never is.
Countable(t, all, kinds) ==
    {i \in Scanned(t, all) :
        /\ t[i].kind \in kinds
        /\ t[i].fault = "none" \/ (t[i].kind = "symlink" /\ t[i].parent # 0)}

\* listRootWithSizes has returned; it has returned without error.
HasReturned == ret.err # "pending"
ReturnedOk == ret.err = Nil

\* C1 (as claimed): the totalSize returned equals the sum of the sizes of the
\* regular files reachable from the root and not excluded by the hidden filter;
\* nothing else contributes bytes.
C1_TotalSizeIsRegularFiles ==
    ReturnedOk => ret.totalSize = SumOfSizes(fs, RegularFiles(fs, showAll))

\* C2 (as claimed): the totalCount returned equals the number of regular files
\* and symbolic links reachable from the root and not excluded by the hidden
\* filter.
C2_CountIsFilesAndLinks ==
    ReturnedOk => ret.totalCount = Cardinality(Countable(fs, showAll, {"file", "symlink"}))

\* C2 (amended): the totalCount returned equals the number of non-directories
\* of any kind (regular files, symbolic links, and pipes, sockets and devices
\* too) reachable from the root and not excluded by the hidden filter, each
\* counted once; no directory, immediate or nested, adds to it.
C2_CountIsNonDirectories ==
    ReturnedOk =>
        ret.totalCount = Cardinality(Countable(fs, showAll, Kinds \ {"dir"}))

\* C2 witness: a scan has returned a count that takes in an immediate file, a
\* nested entry and leaves out the directories it walked.
C2_Witness ==
    /\ ReturnedOk
    /\ ret.totalCount >= 2
    /\ \E i, j, d \in 1..Len(fs) :
         /\ {i, j} \subseteq Countable(fs, showAll, Kinds \ {"dir"})
         /\ fs[i].parent = 0 /\ fs[j].parent = d
         /\ fs[d].kind = "dir" /\ d \in Scanned(fs, showAll)

\* The immediate subdirectories that pass the hidden filter and cannot be
\* walked: Lstat fails (it has disappeared) or ReadDir fails (unreadable).
Unwalkable(t, all) ==
    {d \in 1..Len(t) : t[d].parent = 0 /\ t[d].kind = "dir" /\ ~Excluded(t, all, d)
                        /\ t[d].fault # "none"}

\* C3 (as claimed): when an immediate subdirectory cannot be walked the scan
\* still succeeds, the subdirectory has no Entry in the returned list and adds
\* nothing to the totals, and every sibling subdirectory has its Entry.
C3_UnwalkableHasNoEntry ==
    (HasReturned /\ ret.err # "readdir" /\ Unwalkable(fs, showAll) # {}) =>
        /\ ret.err = Nil
        /\ \A d \in Unwalkable(fs, showAll) :
             \A k \in 1..Len(ret.entries) : ret.entries[k].Name # fs[d].name
        /\ \A d \in 1..Len(fs) :
             (fs[d].parent = 0 /\ fs[d].kind = "dir" /\ ~Excluded(fs, showAll, d)
                /\ d \notin Unwalkable(fs, showAll))
             => \E k \in 1..Len(ret.entries) :
                  ret.entries[k].Name = fs[d].name /\ ret.entries[k].Type = "dir"

\* C4 (as claimed): a symbolic link that is counted adds 0 bytes to totalSize,
\* as an immediate child of the root or inside a subdirectory: the total is the
\* sum of the sizes of the counted entries that are not links.
C4_LinksAddNoBytes ==
    ReturnedOk =>
        ret.totalSize = SumOfSizes(fs, Countable(fs, showAll, Kinds \ {"dir", "symlink"}))

\* The entries below the directory d.
Beneath(t, d) == {i \in 1..Len(t) : d \in Ancestors(t, i)}

\* The immediate entries that pass the hidden filter.
Immediate(t, all) == {i \in 1..Len(t) : t[i].parent = 0 /\ ~Excluded(t, all, i)}

\* The entries that add their size to the totals: the counted entries, but for
\* the symbolic links below a subdirectory.
Contributors(t, all) ==
    {i \in Countable(t, all, Kinds \ {"dir"}) : t[i].kind # "symlink" \/ t[i].parent = 0}

\* The index in the returned list of the Entry of the immediate entry i (0 when
\* there is none).
EntryOf(i) ==
    LET ks == {k \in 1..Len(ret.entries) : ret.entries[k].Name = fs[i].name}
    IN IF ks = {} THEN 0 ELSE CHOOSE k \in ks : TRUE

\* C5: without -a no returned Entry has a name beginning with '.', and nothing
\* below a dot-directory, at the top or nested, is in an Entry's size, in
\* totalSize or in totalCount; with -a every immediate dotfile (whose metadata
\* can be read) and dot-directory is listed and counted, and the size of a
\* directory's Entry, a dot-directory's too, is the sum of the sizes of the
\* regular files beneath it that the filter leaves.
C5_HiddenFilter ==
    ReturnedOk =>
        /\ ~showAll => \A k \in 1..Len(ret.entries) : ~IsDot(ret.entries[k].Name)
        /\ \A d \in Immediate(fs, showAll) :
             fs[d].kind = "dir" =>
                /\ EntryOf(d) # 0
                /\ ret.entries[EntryOf(d)].Size =
                     SumOfSizes(fs, RegularFiles(fs, showAll) \cap Beneath(fs, d))
        /\ \A i \in 1..Len(fs) :
             (Excluded(fs, showAll, i) /\ fs[i].parent = 0) => EntryOf(i) = 0
        /\ ret.totalSize = SumOfSizes(fs, Contributors(fs, showAll))
        /\ ret.totalCount = Cardinality(Countable(fs, showAll, Kinds \ {"dir"}))
        /\ showAll =>
             \A i \in 1..Len(fs) :
                (fs[i].parent = 0 /\ IsDot(fs[i].name)
                   /\ (fs[i].kind = "dir" \/ fs[i].fault = "none"))
                => /\ EntryOf(i) # 0
                   /\ fs[i].kind # "dir" => i \in Countable(fs, showAll, Kinds \ {"dir"})

\* C5 witness: a scan without -a has returned, and a regular file lies in a
\* dot-directory that is nested in a listed subdirectory.
C5_Witness ==
    /\ ReturnedOk
    /\ ~showAll
    /\ \E d, h, f \in 1..Len(fs) :
         /\ fs[d].parent = 0 /\ fs[d].kind = "dir" /\ EntryOf(d) # 0
         /\ fs[h].parent = d /\ fs[h].kind = "dir" /\ IsDot(fs[h].name)
         /\ fs[f].parent = h /\ fs[f].kind = "file" /\ fs[f].fault = "none"

\* What a scan of the tree t returns, as a function of t and the flag alone.
Outcome(t, all) ==
    [entries |->
        { [Name |-> t[i].name, Size |-> t[i].size, Type |-> "file"] :
            i \in {j \in Immediate(t, all) : t[j].kind # "dir" /\ t[j].fault = "none"} }
        \cup
        { [Name |-> t[d].name, Type |-> "dir",
           Size |-> SumOfSizes(t, {i \in Contributors(t, all) : d \in Ancestors(t, i)})] :
            d \in {j \in Immediate(t, all) : t[j].kind = "dir"} },
     totalSize |-> SumOfSizes(t, Contributors(t, all)),
     totalCount |-> Cardinality(Countable(t, all, Kinds \ {"dir"}))]

\* C6: for a fixed tree and flag, whatever the assignment of subdirectories to
\* workers and the order their results arrive in, listRootWithSizes returns the
\* same totalSize, the same totalCount and the same Entries, each once.
C6_SameOutcomeInEveryInterleaving ==
    ReturnedOk =>
        /\ ret.totalSize = Outcome(fs, showAll).totalSize
        /\ ret.totalCount = Outcome(fs, showAll).totalCount
        /\ {ret.entries[k] : k \in 1..Len(ret.entries)} = Outcome(fs, showAll).entries
        /\ Len(ret.entries) = Cardinality(Outcome(fs, showAll).entries)

\* The positions in out of the progress lines of the workers for the name n.
ScanningAt(n) == {k \in 1..Len(out) : out[k][1] = "Scanning" /\ out[k][2] = n}

\* C6 witness: a scan has returned in which two workers took two subdirectories
\* and the second one fed was started on first.
C6_Witness ==
    /\ ReturnedOk
    /\ numWorkers >= 2
    /\ Len(dirs) >= 2
    /\ \E a \in ScanningAt(fs[dirs[1]].name), b \in ScanningAt(fs[dirs[2]].name) : b < a
    /\ Len(ret.entries) >= 2

\* C7: the returned list, files and directories together, is in descending
\* order of size.
C7_SortedBySizeDescending ==
    ReturnedOk =>
        \A k \in 1..(Len(ret.entries) - 1) : ret.entries[k].Size >= ret.entries[k + 1].Size

\* C7 witness: a returned list in which a directory's Entry, appended after the
\* files, stands before a smaller file's.
C7_Witness ==
    /\ ReturnedOk
    /\ \E k \in 1..(Len(ret.entries) - 1) :
         /\ ret.entries[k].Type = "dir"
         /\ ret.entries[k + 1].Type = "file"
         /\ ret.entries[k].Size > ret.entries[k + 1].Size

RECURSIVE SumOfEntries(_)
SumOfEntries(es) == IF Len(es) = 0 THEN 0 ELSE Head(es).Size + SumOfEntries(Tail(es))

\* C8: totalSize is the sum of the Size fields of the entries: in the
\* aggregator after each immediate file and after each consumed result, and in
\* what is returned, also when files or subdirectories were dropped.
C8_TotalSizeIsSumOfEntries ==
    /\ totalSize = SumOfEntries(entries)
    /\ ReturnedOk => ret.totalSize = SumOfEntries(ret.entries)

\* C8 witness: an immediate file was dropped because its metadata could not be
\* read, a worker's result has been consumed, and the total is not 0.
C8_Witness ==
    /\ pc = "Consume"
    /\ resultsProcessed >= 1
    /\ totalSize > 0
    /\ \E i \in Immediate(fs, showAll) : fs[i].kind # "dir" /\ fs[i].fault # "none"

\* The lines of progress in what was written.
IsProgress(line) == line[1] \in {"Scanning", "Scanned"}

\* C9: when the listing of the root cannot be read listRootWithSizes returns
\* the error and nothing else (no entries, totals 0), before any worker is
\* started, any subdirectory walked or any progress written; main then ends
\* with nothing printed.
C9_RootUnreadableNoPartialResult ==
    (HasReturned /\ ~ReturnedOk) =>
        /\ ret.entries = << >> /\ ret.totalSize = 0 /\ ret.totalCount = 0
        /\ numWorkers = 0 /\ wpc = << >> /\ cpc = "idle"
        /\ dirCh = << >> /\ results = << >> /\ resultsProcessed = 0
        /\ out = << >>
        /\ pc \in {"Returned", "Fatal"}

\* C9 witness: the listing of a root that holds a file and a subdirectory has
\* failed, and main has ended.
C9_Witness ==
    /\ HasReturned /\ ~ReturnedOk
    /\ pc = "Fatal"
    /\ \E i, d \in 1..Len(fs) :
         fs[i].parent = 0 /\ fs[i].kind = "file" /\ fs[d].parent = 0 /\ fs[d].kind = "dir"

\* C10: the clearing of the line is written after the last progress line of
\* every worker and of the aggregator and before the first line of the list;
\* no progress is written after it.
C10_ClearAfterProgressBeforeList ==
    /\ \A i, j \in 1..Len(out) : (out[i][1] = "Clear" /\ IsProgress(out[j])) => j < i
    /\ \A j \in 1..Len(out) :
         out[j][1] \in {"Contents", "Rule", "Entry", "Total"} =>
            \E i \in 1..(j - 1) : out[i][1] = "Clear"
    /\ pc \in {"Return", "Returned", "Done"} /\ ReturnedOk =>
         \E i \in 1..Len(out) : out[i][1] = "Clear"
    /\ (\E i \in 1..Len(out) : out[i][1] = "Clear") =>
         \A w \in Workers : wpc[w] = "exited"

\* C10 witness: the list was printed after a scan in which a worker and the
\* aggregator wrote progress.
C10_Witness ==
    /\ pc = "Done"
    /\ \E a, b, c, e \in 1..Len(out) :
         /\ out[a][1] = "Scanning" /\ out[b][1] = "Scanned" /\ out[c][1] = "Clear"
         /\ out[e][1] = "Entry"
         /\ a < c /\ b < c /\ c < e

\* The target was reported as a file.
FileReported == \E k \in 1..Len(out) : out[k][1] = "File"

\* C11: when the target is not a directory, main writes exactly one pair of
\* lines, the target's path and its size, and ends; no directory listing is
\* read, no worker or closer is started, nothing is walked or aggregated, and
\* listRootWithSizes is never entered.  A run that ends without having called
\* listRootWithSizes and without a fatal error is such a run.
C11_FileTargetIsOnlyReported ==
    /\ FileReported =>
         /\ pc = "Done"
         /\ Len(out) = 2
         /\ out[1] = <<"File", target>>
         /\ out[2][1] = "Size"
         /\ ~HasReturned
         /\ dirEntries = << >> /\ dirs = << >> /\ entries = << >>
         /\ numWorkers = 0 /\ wpc = << >> /\ wg = 0 /\ cpc = "idle"
         /\ dirCh = << >> /\ results = << >> /\ resultsProcessed = 0
         /\ ~dirChClosed /\ ~resultsClosed
    /\ (pc = "Done" /\ ~HasReturned) => FileReported

\* C11 witness: main has ended after reporting a file of some size, the default
\* target, on a machine and a tree that a scan would have used.
C11_Witness ==
    /\ pc = "Done"
    /\ FileReported
    /\ out[2] = <<"Size", MaxSize>>
    /\ target = Dot /\ numCPU = MaxCPU /\ Len(fs) = MaxNodes

\* The positions of the tokens that are not the flag.
NonFlags(a) == {k \in 1..Len(a) : a[k] # Flag}

\* The first token that is not the flag, "." when there is none.
FirstNonFlag(a) ==
    IF NonFlags(a) = {} THEN Dot
    ELSE a[CHOOSE k \in NonFlags(a) : \A j \in NonFlags(a) : k <= j]

\* C12 (as claimed): for every command line, once it is read, showAll is set
\* exactly when "-a" is one of the tokens, and the target is the first token
\* that is not "-a", "." when there is none; later tokens are ignored.
C12_TargetIsFirstNonFlag ==
    pc # "Args" =>
        /\ showAll = (\E k \in 1..Len(args) : args[k] = Flag)
        /\ target = FirstNonFlag(args)

\* The aggregator is at the sort of main.go:224 or past it.
Finalizing ==
    \/ pc \in {"Sort", "Clear", "Return"}
    \/ pc \in {"Returned", "Done"} /\ ReturnedOk

\* C13: when the aggregator is at the sort or past it, the number of results
\* consumed is the number of immediate subdirectories dispatched, the result
\* channel and the work queue are empty, and, when there was a pool, every
\* worker has left its loop, the WaitGroup is at zero and the result channel
\* is closed.
C13_SortAfterAllResults ==
    Finalizing =>
        /\ resultsProcessed = Len(dirs)
        /\ results = << >> /\ dirCh = << >>
        /\ Len(dirs) > 0 =>
             /\ numWorkers > 0
             /\ \A w \in Workers : wpc[w] = "exited"
             /\ wg = 0 /\ cpc = "done"
             /\ resultsClosed /\ dirChClosed

\* C13 witness: the aggregator is at the sort after a pool of two workers
\* has walked three subdirectories.
C13_Witness ==
    /\ pc = "Sort"
    /\ numWorkers = MaxCPU
    /\ Len(dirs) = MaxNodes
    /\ resultsProcessed = Len(dirs)

\* C14: under fair scheduling every scan that has begun returns, with every
\* worker out of its loop and the closing goroutine done when a pool was
\* started: no goroutine stays blocked on a channel or on the WaitGroup.
C14_EveryScanReturns ==
    (pc = "ReadDir") ~>
        /\ HasReturned
        /\ numWorkers > 0 => (cpc = "done" /\ \A w \in Workers : wpc[w] = "exited")

\* C14 witness: a scan with more subdirectories than workers has returned.
C14_Witness ==
    /\ ReturnedOk
    /\ numWorkers > 0
    /\ Len(dirs) > numWorkers

Min(a, b) == IF a < b THEN a ELSE b

\* The workers that hold a directory: a walk is in progress.
Walking == {w \in Workers : wpc[w] \in {"print", "walk"}}

\* C15, in every state: no worker exists before the pool is started; the
\* pool has min(NumCPU, 8) workers; at most that many walks are in progress;
\* a worker holds a directory exactly while its walk is in progress.
C15_PoolState ==
    /\ pc \in {"Args", "Stat", "ReadDir", "Partition", "StartWorkers"} => numWorkers = 0
    /\ numWorkers > 0 => numWorkers = Min(numCPU, MaxWorkers)
    /\ DOMAIN wpc = 1..numWorkers /\ DOMAIN wdir = 1..numWorkers
    /\ Cardinality(Walking) <= Min(numCPU, MaxWorkers)
    /\ \A w \in Workers : (wdir[w] # 0) = (w \in Walking)

\* C15, in every step: a worker lets go of its directory only by sending the
\* result of that directory, and holds none right after; it takes one only
\* when it holds none; once started the pool neither grows nor shrinks.
C15_PoolStep ==
    /\ \A w \in Workers :
         /\ (wdir[w] # 0 /\ wdir'[w] # wdir[w]) =>
              /\ wdir'[w] = 0
              /\ Len(results') = Len(results) + 1
              /\ results'[Len(results')].entry.Name = fs[wdir[w]].name
         /\ (wdir[w] = 0 /\ wdir'[w] # 0) => wpc[w] = "recv"
    /\ numWorkers > 0 => (numWorkers' = numWorkers /\ DOMAIN wpc' = DOMAIN wpc)

\* C15: at every moment the walks in progress are at most min(NumCPU, 8),
\* however many immediate subdirectories there are; each worker has at most
\* one walk in progress and delivers its result before it takes the next
\* directory; no walk starts a worker.
C15_WalksBoundedByPool == []C15_PoolState /\ [][C15_PoolStep]_vars

\* C15 witness: on a machine with more CPUs than the cap, a worker of a pool
\* of MaxWorkers is in its walk.
C15_Witness ==
    /\ numCPU > MaxWorkers
    /\ numWorkers = MaxWorkers
    /\ \E w \in Workers : wpc[w] = "walk"

\* The k-th immediate subdirectory has been put on the work queue.
Fed(k) ==
    /\ pc \notin {"Args", "Stat", "ReadDir", "Partition", "StartWorkers"}
    /\ pc = "Feed" => k < idx

\* The loop over the listing (main.go:113-137) has ended.
Partitioned ==
    \/ pc \in {"StartWorkers", "Feed", "StartCloser", "Consume", "Sort", "Clear", "Return"}
    \/ ReturnedOk

\* In how many places the immediate subdirectory d is: on the work queue, in
\* a worker's hands, on the result channel, in the entry list.
Places(d) ==
    Cardinality({k \in 1..Len(dirCh) : dirCh[k] = d})
    + Cardinality({w \in Workers : wdir[w] = d})
    + Cardinality({k \in 1..Len(results) : results[k].entry.Name = fs[d].name})
    + Cardinality({k \in 1..Len(entries) :
                     entries[k].Name = fs[d].name /\ entries[k].Type = "dir"})

\* C16: the subdirectories dispatched are the immediate subdirectories that
\* pass the hidden filter, each once; one that has been enqueued is in exactly
\* one place (the queue, one worker, the result channel or the entry list) and
\* one that has not is in none, so none is lost, taken by two workers, or
\* walked or delivered twice; only dispatched subdirectories are in these places;
\* the returned list holds one Entry for each of them and at most one Entry
\* for any immediate child.
C16_EachSubdirectoryOnce ==
    /\ \A k \in 1..Len(dirs) : Places(dirs[k]) = IF Fed(k) THEN 1 ELSE 0
    /\ \A j, k \in 1..Len(dirs) : dirs[j] = dirs[k] => j = k
    /\ Partitioned =>
         {dirs[k] : k \in 1..Len(dirs)}
            = {i \in Immediate(fs, showAll) : fs[i].kind = "dir"}
    /\ \A k \in 1..Len(dirCh) : \E j \in 1..Len(dirs) : dirCh[k] = dirs[j]
    /\ \A w \in Workers : wdir[w] # 0 => \E j \in 1..Len(dirs) : wdir[w] = dirs[j]
    /\ \A k \in 1..Len(results) :
         \E j \in 1..Len(dirs) : results[k].entry.Name = fs[dirs[j]].name
    /\ ReturnedOk =>
         /\ \A j, k \in 1..Len(ret.entries) :
              ret.entries[j].Name = ret.entries[k].Name => j = k
         /\ \A k \in 1..Len(ret.entries) :
              \E i \in 1..Len(fs) : fs[i].parent = 0 /\ fs[i].name = ret.entries[k].Name
         /\ \A k \in 1..Len(dirs) :
              \E j \in 1..Len(ret.entries) :
                 ret.entries[j].Name = fs[dirs[k]].name /\ ret.entries[j].Type = "dir"

\* C16 witness: two workers have between them walked three subdirectories,
\* and the list returned holds the three.
C16_Witness ==
    /\ ReturnedOk
    /\ numWorkers = MaxCPU
    /\ Len(dirs) = MaxNodes
    /\ Len(ret.entries) = MaxNodes

\* The positions of the "Scanned N/M" lines in the output.
Updates == {k \in 1..Len(out) : out[k][1] = "Scanned"}

\* C17, in every state: the updates written so far have N from 1 to M, M the
\* number of subdirectories dispatched, N never above the number of results
\* consumed, and N does not decrease from one update to a later one.
C17_UpdatesState ==
    /\ \A k \in Updates :
         /\ 1 <= out[k][2] /\ out[k][2] <= out[k][3]
         /\ out[k][3] = Len(dirs)
         /\ out[k][2] <= resultsProcessed
    /\ \A j, k \in Updates : j < k => out[j][2] <= out[k][2]

\* C17, in every step: an update is written by the aggregator as it consumes
\* a result, and carries the number of results consumed, that one included.
C17_UpdatesStep ==
    (Len(out') = Len(out) + 1 /\ out'[Len(out')][1] = "Scanned") =>
        /\ pc = "Consume"
        /\ resultsProcessed' = resultsProcessed + 1
        /\ out'[Len(out')][2] = resultsProcessed'

\* C17: the "Scanned N/M" updates of one scan have non-decreasing N, with
\* 1 <= N <= M and M the number of immediate subdirectories dispatched, and
\* each carries the number of results consumed when it is written.
C17_ProgressCountsResults == []C17_UpdatesState /\ [][C17_UpdatesStep]_vars

\* C17 witness: of three results the first and the third were announced, the
\* second having come within the interval.
C17_Witness ==
    /\ Len(dirs) = MaxNodes
    /\ \E j, k \in Updates :
         /\ j < k
         /\ out[j] = <<"Scanned", 1, MaxNodes>>
         /\ out[k] = <<"Scanned", MaxNodes, MaxNodes>>
    /\ Cardinality(Updates) = 2

\* The immediate non-directories that pass the hidden filter and whose
\* metadata cannot be read.
UnreadableFiles(t, all) ==
    {i \in Immediate(t, all) : t[i].kind # "dir" /\ t[i].fault # "none"}

\* C18, in every state: the only error listRootWithSizes returns is that of
\* os.ReadDir on the root, returned with nothing of the listing read; a return
\* without error has no Entry for an immediate file whose metadata cannot be
\* read, and its count and size leave that file out.
C18_ErrorState ==
    /\ HasReturned => ret.err \in {Nil, "readdir"}
    /\ ret.err = "readdir" =>
         dirEntries = << >> /\ dirs = << >> /\ entries = << >> /\ numWorkers = 0
    /\ ReturnedOk =>
         /\ \A i \in UnreadableFiles(fs, showAll) :
              \A k \in 1..Len(ret.entries) : ret.entries[k].Name # fs[i].name
         /\ ret.totalCount =
              Cardinality({i \in Scanned(fs, showAll) : fs[i].kind # "dir"}
                             \ UnreadableFiles(fs, showAll))
                - Cardinality({i \in Scanned(fs, showAll) :
                                 /\ fs[i].parent # 0
                                 /\ fs[i].kind \in {"file", "other"}
                                 /\ fs[i].fault # "none"})
         /\ ret.totalSize = SumOfEntries(ret.entries)

\* C18, in every step: listRootWithSizes returns from two places, with the
\* error where os.ReadDir has failed and without error once the listing has
\* been read, whatever has failed on an entry since.
C18_ErrorStep ==
    ret' # ret =>
        \/ pc = "ReadDir" /\ ret'.err = "readdir"
        \/ pc = "Return" /\ ret'.err = Nil

\* C18: listRootWithSizes returns an error only when reading the root's
\* listing fails; once the listing is read no failure on an entry makes it
\* return one, and an immediate file whose metadata cannot be read is neither
\* listed nor counted.
C18_OnlyRootListingFails == []C18_ErrorState /\ [][C18_ErrorStep]_vars

\* C18 witness: a scan has returned without error from a root that holds a
\* file whose metadata cannot be read and a subdirectory that was walked.
C18_Witness ==
    /\ ReturnedOk
    /\ \E i \in UnreadableFiles(fs, showAll), d \in 1..Len(fs) :
         /\ fs[i].kind = "file"
         /\ fs[d].parent = 0 /\ fs[d].kind = "dir" /\ EntryOf(d) # 0

\* C19: the work queue and the result channel never hold more items than
\* there are immediate subdirectories, which is the capacity of each once
\* they are made; whenever main is about to put a directory on the queue the
\* queue is open and below its capacity, and whenever a worker holds a
\* directory, walked or about to be, the result channel is open and below its
\* capacity: neither send blocks, whether or not the aggregator has begun to
\* consume.
C19_SendsNeverBlock ==
    /\ Len(dirCh) <= Len(dirs)
    /\ Len(results) <= Len(dirs)
    /\ numWorkers > 0 => ChanCap = Len(dirs)
    /\ (pc = "Feed" /\ idx <= Len(dirs)) => (~dirChClosed /\ Len(dirCh) < ChanCap)
    /\ \A w \in Workers :
         wpc[w] \in {"print", "walk"} => (~resultsClosed /\ Len(results) < ChanCap)

\* C19 witness: the result channel holds a result for each of three
\* subdirectories, and a worker's last send went through, before the
\* aggregator has begun to consume.
C19_Witness ==
    /\ pc \in {"Feed", "StartCloser"}
    /\ Len(dirs) = MaxNodes
    /\ Len(results) = Len(dirs)
    /\ resultsProcessed = 0

\* C20, in every state: while the result channel is closed every worker is
\* out of its loop and the closing goroutine is done; while the work queue is
\* closed main is past the loop that feeds it; a scan that used a pool returns
\* with both closed.
C20_ClosedState ==
    /\ resultsClosed =>
         /\ numWorkers > 0 /\ wg = 0 /\ cpc = "done"
         /\ \A w \in Workers : wpc[w] = "exited"
    /\ dirChClosed => pc \notin {"Args", "Stat", "ReadDir", "Partition", "StartWorkers", "Feed"}
    /\ (ReturnedOk /\ numWorkers > 0) => (resultsClosed /\ dirChClosed)

\* C20, in every step: the result channel is closed by the one step of the
\* closing goroutine, which does not run again; the work queue is closed when
\* every subdirectory has been enqueued; a closed channel stays closed and
\* gains no item.
C20_ClosedStep ==
    /\ (resultsClosed' # resultsClosed) =>
         /\ ~resultsClosed /\ cpc = "close" /\ cpc' = "done"
         /\ \A w \in Workers : wpc[w] = "exited"
    /\ cpc = "done" => cpc' = "done"
    /\ resultsClosed => Len(results') <= Len(results)
    /\ (dirChClosed' # dirChClosed) =>
         /\ ~dirChClosed /\ pc = "Feed" /\ idx = Len(dirs) + 1
         /\ \A k \in 1..Len(dirs) : Places(dirs[k]) = 1
    /\ dirChClosed => Len(dirCh') <= Len(dirCh)

\* C20: the result channel is closed exactly once, after every worker has
\* left its loop, and no worker sends on it afterwards; the work queue is
\* closed after every immediate subdirectory has been enqueued, and nothing
\* is enqueued afterwards.
C20_ChannelsClosedInOrder == []C20_ClosedState /\ [][C20_ClosedStep]_vars

\* C20 witness: both channels are closed, after two workers and three
\* subdirectories, while the aggregator still has results to consume.
C20_Witness ==
    /\ resultsClosed /\ dirChClosed
    /\ pc = "Consume"
    /\ numWorkers = MaxCPU
    /\ Len(dirs) = MaxNodes
    /\ Len(results) > 0

====
